---- MODULE Spec2Model ----
(***************************************************************************)
(* Prompt store (backend/main.py): a FastAPI facade over a Neo4j graph.    *)
(* The model covers the route table and its dispatch, request validation,  *)
(* the three handlers, the three transaction functions and the managed     *)
(* transactions (session.write_transaction / session.read_transaction)     *)
(* that run them.  The graph store is modelled with read-committed         *)
(* transactions: a transaction sees the committed graph plus its own       *)
(* writes, and its writes become visible atomically at commit.             *)
(*                                                                         *)
(* Texts are sequences of words so that the full-text score can be         *)
(* computed; the empty sequence is the empty string.                       *)
(***************************************************************************)
EXTENDS Integers, Sequences, FiniteSets, TLC

VARIABLES prompts,    \* committed Prompt nodes
          tagNodes,   \* committed Tag nodes
          edges,      \* committed HAS_TAG relationships
          index,      \* TRUE iff promptTextIndex exists and is online
          issued,     \* number of identifiers generated so far
          requested,  \* history: the input of every create call, by id
          pc,         \* per caller: "idle", "run", "done"
          call,       \* per caller: the handler running and its arguments
          tx,         \* per caller: the state of the open transaction
          attempts,   \* per caller: executions of the transaction function
          lastError,  \* per caller: the error of the last failed execution
          resp,       \* per caller: the response of the finished call
          sess,       \* per caller: a session was acquired in this call
          request     \* per caller: the HTTP request being served, if any

vars == <<prompts, tagNodes, edges, index, issued, requested,
          pc, call, tx, attempts, lastError, resp, sess, request>>

store == <<prompts, tagNodes, edges, index>>

(***************************************************************************)
(* Bounds                                                                  *)
(***************************************************************************)
MaxPrompts == 2     \* create calls per behaviour
MaxRetry == 1       \* re-runs the retry time budget of a managed transaction allows
MaxStore == 12      \* Prompt nodes of the stores the search is checked on

(***************************************************************************)
(* Program constants                                                       *)
(***************************************************************************)
Limit == 10         \* LIMIT 10 of the search query

Procs == {"c1", "c2"}

Null == "null_"       \* Python None / Cypher null
Absent == "absent_"   \* a property the node does not have

(***************************************************************************)
(* Inputs                                                                  *)
(***************************************************************************)
Body(ht, t, s, hg, g) ==
    [hasText |-> ht, text |-> t, source |-> s, hasTags |-> hg, tags |-> g]

NoBody == Body(FALSE, <<>>, Null, FALSE, <<>>)

\* JSON bodies of POST /prompts: two tags; no source, no tags and an empty
\* text; a repeated tag; no text at all.
TagBodies ==
    { Body(TRUE, <<"robot">>, "user", TRUE, <<"story", "robot">>),
      Body(TRUE, <<"robot", "robot">>, "user", TRUE, <<"story", "story">>) }

Bodies == TagBodies \cup { Body(TRUE, <<>>, Null, FALSE, <<>>), NoBody }

Terms == {"robot", ""}

uuid4(n) == "id-" \o ToString(n)

PathIds == {uuid4(1), "id-none"}

Post(b) == [method |-> "POST", path |-> <<"prompts">>, body |-> b, hasQ |-> FALSE, q |-> ""]

Get(s, hq, q) == [method |-> "GET", path |-> <<"prompts", s>>, body |-> NoBody, hasQ |-> hq, q |-> q]

\* POST /prompts with a JSON body; GET /prompts/<id>; GET /prompts/search[?q=<term>]
HttpRequests ==
    {Post(b) : b \in Bodies}
    \cup {Get(s, FALSE, "") : s \in PathIds}
    \cup {Get("search", TRUE, "robot"), Get("search", FALSE, "")}

\* The requests of the tag scenarios: prompts with tags, and the third prompt read back.
TagRequests == {Post(b) : b \in TagBodies} \cup {Get(uuid4(MaxPrompts + 1), FALSE, "")}

NoRequest == [method |-> "none", path |-> <<>>, body |-> NoBody, hasQ |-> FALSE, q |-> ""]

(***************************************************************************)
(* Route table and dispatch                                                *)
(***************************************************************************)
Routes ==
    << [method |-> "POST", path |-> <<"prompts">>, handler |-> "create_prompt"],
       [method |-> "GET", path |-> <<"prompts", "{prompt_id}">>, handler |-> "get_prompt"],
       [method |-> "GET", path |-> <<"prompts", "search">>, handler |-> "search_prompts"] >>

IsParam(seg) == seg = "{prompt_id}"

RouteMatches(route, method, path) ==
    /\ route.method = method
    /\ Len(route.path) = Len(path)
    /\ \A i \in 1..Len(path) : IsParam(route.path[i]) \/ route.path[i] = path[i]

\* The routes are tried in the order of their registration; the first match wins.
Dispatch(method, path) ==
    LET hits == {i \in 1..Len(Routes) : RouteMatches(Routes[i], method, path)}
    IN  IF hits = {} THEN "no_route"
        ELSE Routes[CHOOSE i \in hits : \A j \in hits : i <= j].handler

(***************************************************************************)
(* Request validation                                                      *)
(***************************************************************************)
\* PromptCreate: text is a required str; source and tags are optional.
PromptCreate(body) == body.hasText

\* q: str = Query(...): a required query parameter.
QueryRequired(req) == req.hasQ

\* tags = prompt.tags or []
TagsOrEmpty(body) == IF body.hasTags THEN body.tags ELSE <<>>

(***************************************************************************)
(* Values of the per-caller variables                                      *)
(***************************************************************************)
NoCall == [handler |-> "none", id |-> "", n |-> 0, text |-> <<>>, source |-> Null,
           tags |-> <<>>, q |-> ""]

NoTx == [created |-> FALSE, i |-> 0, node |-> {}, tags |-> {}, edges |-> {},
         indexAdded |-> FALSE, rec |-> {}, list |-> <<>>]

NoResp == [status |-> 0, id |-> "", rec |-> {}, list |-> <<>>, error |-> "none"]

Response(st, id, rec, list, err) ==
    [status |-> st, id |-> id, rec |-> rec, list |-> list, error |-> err]

(***************************************************************************)
(* Property conversions of the graph store                                 *)
(***************************************************************************)
\* CREATE (p {source: $source}): a null value stores no property.
StoreProp(v) == IF v = Null THEN Absent ELSE v

\* p.get("source") and node.source: a missing property reads as null.
GetProp(v) == IF v = Absent THEN Null ELSE v

SeqToSet(s) == {s[i] : i \in 1..Len(s)}

(***************************************************************************)
(* Managed transactions: session.write_transaction, session.read_transaction *)
(***************************************************************************)
\* Commit makes the writes of the transaction visible, all at once.
AfterCommit(s, t) ==
    <<s[1] \cup t.node, s[2] \cup t.tags, s[3] \cup t.edges, s[4] \/ t.indexAdded>>

\* Faulty variant: a failed transaction leaves the Prompt node it created behind.
AfterRollbackKeepsNode(s, t) == <<s[1] \cup t.node, s[2], s[3], s[4]>>

\* A failed transaction function closes the transaction: nothing is written.
AfterRollback(s, t) == s

Retryable == {"Transient"}

\* Faulty variant: every error is retried.
RetryAllowedAny(kind, n) == n <= MaxRetry

\* The transaction function is run again after a retryable error while the
\* retry time budget lasts; n is the number of executions so far.
RetryAllowed(kind, n) == kind \in Retryable /\ n <= MaxRetry

SetStore(s) ==
    /\ prompts' = s[1]
    /\ tagNodes' = s[2]
    /\ edges' = s[3]
    /\ index' = s[4]

\* The transaction function of caller p raised an error of the given kind.
Failure(p, kind) ==
    /\ SetStore(AfterRollback(store, tx[p]))
    /\ tx' = [tx EXCEPT ![p] = NoTx]
    /\ IF RetryAllowed(kind, attempts[p])
       THEN /\ attempts' = [attempts EXCEPT ![p] = attempts[p] + 1]
            /\ UNCHANGED <<pc, resp>>
       ELSE /\ pc' = [pc EXCEPT ![p] = "done"]
            /\ resp' = [resp EXCEPT ![p] = Response(500, "", {}, <<>>, kind)]
            /\ UNCHANGED attempts
    /\ lastError' = [lastError EXCEPT ![p] = kind]
    /\ UNCHANGED <<issued, requested, call, sess, request>>

(***************************************************************************)
(* Handlers                                                                *)
(***************************************************************************)
Enter(p, c) ==
    /\ call' = [call EXCEPT ![p] = c]
    /\ pc' = [pc EXCEPT ![p] = "run"]
    /\ sess' = [sess EXCEPT ![p] = TRUE]
    /\ attempts' = [attempts EXCEPT ![p] = 1]
    /\ lastError' = [lastError EXCEPT ![p] = "none"]
    /\ tx' = [tx EXCEPT ![p] = NoTx]
    /\ UNCHANGED <<store, resp>>

create_prompt(p, body) ==
    /\ issued' = issued + 1
    /\ LET id == uuid4(issued + 1)
           tags == TagsOrEmpty(body)
       IN  /\ requested' = requested \cup
                 {[id |-> id, text |-> body.text, source |-> body.source, tags |-> tags]}
           /\ Enter(p, [handler |-> "create_prompt", id |-> id, n |-> issued + 1,
                        text |-> body.text, source |-> body.source, tags |-> tags, q |-> ""])

get_prompt(p, prompt_id) ==
    /\ Enter(p, [NoCall EXCEPT !.handler = "get_prompt", !.id = prompt_id])
    /\ UNCHANGED <<issued, requested>>

search_prompts(p, q) ==
    /\ Enter(p, [NoCall EXCEPT !.handler = "search_prompts", !.q = q])
    /\ UNCHANGED <<issued, requested>>

\* A request the framework answers itself: no handler runs.
Reject(p, status) ==
    /\ pc' = [pc EXCEPT ![p] = "done"]
    /\ resp' = [resp EXCEPT ![p] = Response(status, "", {}, <<>>, "none")]
    /\ UNCHANGED <<store, issued, requested, call, tx, attempts, lastError, sess>>

\* One HTTP request, from reqs; cap bounds the create calls of a behaviour.
Serve(p, reqs, cap) ==
    /\ pc[p] = "idle"
    /\ \E req \in reqs :
        /\ request' = [request EXCEPT ![p] = req]
        /\ LET h == Dispatch(req.method, req.path)
           IN  IF h = "create_prompt"
               THEN IF PromptCreate(req.body)
                    THEN issued < cap /\ create_prompt(p, req.body)
                    ELSE Reject(p, 422)
               ELSE IF h = "get_prompt" THEN get_prompt(p, req.path[2])
               ELSE IF h = "search_prompts"
               THEN IF QueryRequired(req) THEN search_prompts(p, req.q)
                                         ELSE Reject(p, 422)
               ELSE Reject(p, 404)

HttpRequest(p) == Serve(p, HttpRequests, MaxPrompts)

TagRequest(p) == Serve(p, TagRequests, MaxPrompts + 1)

\* The search operation called with a query string.
Search(p) ==
    /\ pc[p] = "idle"
    /\ \E q \in Terms : search_prompts(p, q)
    /\ UNCHANGED request

(***************************************************************************)
(* _create_prompt                                                          *)
(***************************************************************************)
Running(p, h) == pc[p] = "run" /\ call[p].handler = h

\* CREATE (p:Prompt {id: $id, text: $text, source: $source})
NewPrompt(c) ==
    [id |-> c.id, n |-> c.n, text |-> c.text, source |-> StoreProp(c.source)]

CreateNode(p) ==
    /\ Running(p, "create_prompt")
    /\ ~tx[p].created
    /\ tx' = [tx EXCEPT ![p].created = TRUE, ![p].node = {NewPrompt(call[p])}]
    /\ UNCHANGED <<store, issued, requested, pc, call, attempts, lastError, resp, sess, request>>

\* Faulty variant: CREATE instead of MERGE.
MergeTagNodeCreate(visible, name, by) == {[by |-> by, name |-> name]}

\* MERGE (t:Tag {name: tag}): every Tag node with that name the transaction
\* sees (committed, or written by itself); a new node when it sees none.
MergeTagNode(visible, name, by) ==
    LET found == {t \in visible : t.name = name}
    IN  IF found = {} THEN {[by |-> by, name |-> name]} ELSE found

\* One iteration of FOREACH: MERGE the Tag, then MERGE (p)-[:HAS_TAG]->(t)
\* for every t the first MERGE bound.
MergeTag(p) ==
    /\ Running(p, "create_prompt")
    /\ tx[p].created
    /\ tx[p].i < Len(call[p].tags)
    /\ LET name == call[p].tags[tx[p].i + 1]
           ts == MergeTagNode(tagNodes \cup tx[p].tags, name, call[p].id)
       IN  tx' = [tx EXCEPT ![p].i = tx[p].i + 1,
                            ![p].tags = tx[p].tags \cup (ts \ tagNodes),
                            ![p].edges = tx[p].edges \cup
                                {[from |-> call[p].id, to |-> t] : t \in ts}]
    /\ UNCHANGED <<store, issued, requested, pc, call, attempts, lastError, resp, sess, request>>

(***************************************************************************)
(* _get_prompt                                                             *)
(***************************************************************************)
\* collect(t.name): one entry per HAS_TAG relationship, as a bag of names.
Collect(id) ==
    LET out == {e \in edges : e.from = id}
    IN  [nm \in {e.to.name : e \in out} |-> Cardinality({e \in out : e.to.name = nm})]

\* result.single(): the record, or nothing.
Single(rows) == IF rows = {} THEN {} ELSE {CHOOSE r \in rows : TRUE}

GetRecord(id) ==
    Single({ [id |-> n.id, text |-> n.text, source |-> GetProp(n.source),
              tags |-> Collect(n.id)] : n \in {m \in prompts : m.id = id} })

RunGet(p) ==
    /\ Running(p, "get_prompt")
    /\ tx[p].i = 0
    /\ tx' = [tx EXCEPT ![p].i = 1, ![p].rec = GetRecord(call[p].id)]
    /\ UNCHANGED <<store, issued, requested, pc, call, attempts, lastError, resp, sess, request>>

(***************************************************************************)
(* _search_prompts                                                         *)
(***************************************************************************)
\* CREATE FULLTEXT INDEX promptTextIndex IF NOT EXISTS, inside the read
\* transaction: nothing to do when the index exists; otherwise the server
\* either refuses the schema write of a read transaction or records the new
\* index in the transaction, to be built when the transaction commits.
EnsureIndex(p) ==
    /\ Running(p, "search_prompts")
    /\ tx[p].i = 0
    /\ IF index
       THEN /\ tx' = [tx EXCEPT ![p].i = 1]
            /\ UNCHANGED <<store, issued, requested, pc, call, attempts, lastError, resp, sess, request>>
       ELSE \E refused \in BOOLEAN :
              IF refused
              THEN Failure(p, "AccessMode")
              ELSE /\ tx' = [tx EXCEPT ![p].i = 1, ![p].indexAdded = TRUE]
                   /\ UNCHANGED <<store, issued, requested, pc, call, attempts, lastError, resp,
                                  sess, request>>

\* The relevance of a text for a term: the occurrences of the term.
Score(text, q) == Cardinality({i \in 1..Len(text) : text[i] = q})

Hits(q) == {n \in prompts : Score(n.text, q) > 0}

Row(n, q) ==
    [id |-> n.id, text |-> n.text, source |-> GetProp(n.source), score |-> Score(n.text, q)]

TieBreaks == {"asc", "desc"}

\* ORDER BY score DESC: rows of equal score come in an order of the store's choosing.
Before(a, b, q, tie) ==
    \/ Score(a.text, q) > Score(b.text, q)
    \/ /\ Score(a.text, q) = Score(b.text, q)
       /\ IF tie = "asc" THEN a.n < b.n ELSE a.n > b.n

\* Faulty variant: ORDER BY score ASC.
OrderByScoreLimitAsc(ns, q, tie) ==
    LET pos(a) == 1 + Cardinality({b \in ns : Before(a, b, q, tie)})
        len == IF Cardinality(ns) < Limit THEN Cardinality(ns) ELSE Limit
    IN  [i \in 1..len |-> Row(CHOOSE a \in ns : pos(a) = i, q)]

\* ... ORDER BY score DESC LIMIT 10
OrderByScoreLimit(ns, q, tie) ==
    LET pos(a) == 1 + Cardinality({b \in ns : Before(b, a, q, tie)})
        len == IF Cardinality(ns) < Limit THEN Cardinality(ns) ELSE Limit
    IN  [i \in 1..len |-> Row(CHOOSE a \in ns : pos(a) = i, q)]

Query(p) ==
    /\ Running(p, "search_prompts")
    /\ tx[p].i = 1
    /\ IF tx[p].indexAdded
       THEN Failure(p, "IndexNotOnline")
       ELSE \/ /\ call[p].q = ""
               /\ Failure(p, "ParseError")
            \/ /\ \E tie \in TieBreaks :
                    tx' = [tx EXCEPT ![p].i = 2,
                                     ![p].list = OrderByScoreLimit(Hits(call[p].q), call[p].q, tie)]
               /\ UNCHANGED <<store, issued, requested, pc, call, attempts, lastError, resp, sess, request>>

(***************************************************************************)
(* Commit, store failures, return                                          *)
(***************************************************************************)
Ready(p) ==
    \/ call[p].handler = "create_prompt" /\ tx[p].created /\ tx[p].i = Len(call[p].tags)
    \/ call[p].handler = "get_prompt" /\ tx[p].i = 1
    \/ call[p].handler = "search_prompts" /\ tx[p].i = 2

\* Faulty variant: get_prompt returns the empty result instead of raising the 404.
ResultNoCheck(c, t) ==
    IF c.handler = "create_prompt" THEN Response(200, c.id, {}, <<>>, "none")
    ELSE IF c.handler = "get_prompt" THEN Response(200, "", t.rec, <<>>, "none")
    ELSE Response(200, "", {}, t.list, "none")

\* What the handler returns, or the HTTPException it raises.
Result(c, t) ==
    IF c.handler = "create_prompt" THEN Response(200, c.id, {}, <<>>, "none")
    ELSE IF c.handler = "get_prompt"
    THEN IF t.rec = {} THEN Response(404, "", {}, <<>>, "none")
                       ELSE Response(200, "", t.rec, <<>>, "none")
    ELSE Response(200, "", {}, t.list, "none")

Commit(p) ==
    /\ pc[p] = "run"
    /\ Ready(p)
    /\ SetStore(AfterCommit(store, tx[p]))
    /\ resp' = [resp EXCEPT ![p] = Result(call[p], tx[p])]
    /\ pc' = [pc EXCEPT ![p] = "done"]
    /\ tx' = [tx EXCEPT ![p] = NoTx]
    /\ UNCHANGED <<issued, requested, call, attempts, lastError, sess, request>>

Faults == {"Transient", "DatabaseError"}

\* Connectivity loss or a backend error while the transaction is open.
Fault(p) ==
    /\ pc[p] = "run"
    /\ \E kind \in Faults : Failure(p, kind)

Return(p) ==
    /\ pc[p] = "done"
    /\ pc' = [pc EXCEPT ![p] = "idle"]
    /\ call' = [call EXCEPT ![p] = NoCall]
    /\ resp' = [resp EXCEPT ![p] = NoResp]
    /\ attempts' = [attempts EXCEPT ![p] = 0]
    /\ lastError' = [lastError EXCEPT ![p] = "none"]
    /\ sess' = [sess EXCEPT ![p] = FALSE]
    /\ request' = [request EXCEPT ![p] = NoRequest]
    /\ UNCHANGED <<store, issued, requested, tx>>

(***************************************************************************)
(* Specifications                                                          *)
(***************************************************************************)
Idle ==
    /\ pc = [p \in Procs |-> "idle"]
    /\ call = [p \in Procs |-> NoCall]
    /\ tx = [p \in Procs |-> NoTx]
    /\ attempts = [p \in Procs |-> 0]
    /\ lastError = [p \in Procs |-> "none"]
    /\ resp = [p \in Procs |-> NoResp]
    /\ sess = [p \in Procs |-> FALSE]
    /\ request = [p \in Procs |-> NoRequest]

\* A fresh database: an empty graph without the full-text index.
Init ==
    /\ prompts = {}
    /\ tagNodes = {}
    /\ edges = {}
    /\ index = FALSE
    /\ issued = 0
    /\ requested = {}
    /\ Idle

Step(p) ==
    \/ CreateNode(p)
    \/ MergeTag(p)
    \/ RunGet(p)
    \/ Commit(p)
    \/ Fault(p)
    \/ Return(p)

\* The service: any number of callers send HTTP requests at once.
Next == \E p \in Procs : HttpRequest(p) \/ Step(p)

Spec == Init /\ [][Next]_vars

\* Concurrent callers that create tagged prompts and read them back.
NextTags ==
    \E p \in Procs :
        TagRequest(p) \/ CreateNode(p) \/ MergeTag(p) \/ RunGet(p) \/ Commit(p) \/ Return(p)

SpecTags == Init /\ [][NextTags]_vars

\* One call after another: a call starts when no other call is running.
AllIdle == \A p \in Procs : pc[p] = "idle"

NextSeq ==
    \E p \in Procs :
        \/ AllIdle /\ Serve(p, HttpRequests, MaxPrompts + 1)
        \/ Step(p)

SpecSeq == Init /\ [][NextSeq]_vars

\* The search operation, called with a query string on a store of up to
\* MaxStore prompts (given by the number of prompts of each text) whose index
\* is absent, or was created by a migration step.
StoreTexts == << <<"story">>, <<"robot">>, <<"robot", "robot">> >>

StoreOf(a, b, c) ==
    { [id |-> uuid4(k), n |-> k, source |-> Absent,
       text |-> StoreTexts[IF k <= a THEN 1 ELSE IF k <= a + b THEN 2 ELSE 3]] :
        k \in 1..(a + b + c) }

InitSearch ==
    /\ \E a, b, c \in 0..MaxStore :
        /\ a + b + c <= MaxStore
        /\ prompts = StoreOf(a, b, c)
        /\ issued = a + b + c
    /\ requested = {[id |-> n.id, text |-> n.text, source |-> Null, tags |-> <<>>] : n \in prompts}
    /\ tagNodes = {}
    /\ edges = {}
    /\ index \in BOOLEAN
    /\ Idle

NextSearch ==
    \E p \in Procs :
        \/ AllIdle /\ Search(p)
        \/ EnsureIndex(p)
        \/ Query(p)
        \/ Commit(p)
        \/ Fault(p)
        \/ Return(p)

SpecSearch == InitSearch /\ [][NextSearch]_vars

(***************************************************************************)
(* Properties                                                              *)
(***************************************************************************)
Done(p, h) == pc[p] = "done" /\ call[p].handler = h

Committed(id) == \E n \in prompts : n.id = id

InputOf(id) == {i \in requested : i.id = id}

\* C1: a get that finds a prompt returns the id, the text and the source the
\* prompt was created with, and each distinct input tag exactly once and
\* nothing else.
C1_RoundTrip ==
    \A p \in Procs :
        (Done(p, "get_prompt") /\ resp[p].status = 200) =>
            \A r \in resp[p].rec :
                /\ r.id = call[p].id
                /\ \A i \in InputOf(r.id) :
                    /\ r.text = i.text
                    /\ r.source = i.source
                    /\ r.tags = [nm \in SeqToSet(i.tags) |-> 1]

\* C2: the committed graph, which is what a reader sees, holds a Prompt only
\* together with a Tag node and a HAS_TAG edge for each of its tags; every
\* edge and every Tag node belongs to a committed Prompt; and a create call
\* that failed has left no Prompt node, Tag node or edge.
C2_Atomicity ==
    /\ \A n \in prompts : \A i \in InputOf(n.id) : \A nm \in SeqToSet(i.tags) :
          \E e \in edges : e.from = n.id /\ e.to.name = nm /\ e.to \in tagNodes
    /\ \A e \in edges : e.to \in tagNodes /\ Committed(e.from)
    /\ \A t \in tagNodes : Committed(t.by)
    /\ \A p \in Procs :
          (Done(p, "create_prompt") /\ resp[p].status = 500) =>
              /\ ~Committed(call[p].id)
              /\ \A t \in tagNodes : t.by # call[p].id
              /\ \A e \in edges : e.from # call[p].id

\* A create of a tagged prompt failed after another tagged prompt was committed.
C2_Witness ==
    \E p \in Procs :
        /\ Done(p, "create_prompt")
        /\ resp[p].status = 500
        /\ call[p].tags # <<>>
        /\ \E n \in prompts : \E e \in edges : e.from = n.id

\* C3: when two create calls that name the same tag have both committed, one
\* Tag node with that name exists and both new Prompts have an edge to it.
C3_ConcurrentMerge ==
    \A i, j \in requested :
        (i.id # j.id /\ Committed(i.id) /\ Committed(j.id)) =>
            \A nm \in SeqToSet(i.tags) \cap SeqToSet(j.tags) :
                /\ Cardinality({t \in tagNodes : t.name = nm}) = 1
                /\ \A t \in tagNodes :
                      t.name = nm => \A id \in {i.id, j.id} :
                          [from |-> id, to |-> t] \in edges

\* C4: with the calls executed one after another, no two Tag nodes have the
\* same name, so prompts that share a tag name are linked to the same node.
C4_TagIdempotence ==
    /\ \A t1, t2 \in tagNodes : t1.name = t2.name => t1 = t2
    /\ \A e1, e2 \in edges : e1.to.name = e2.to.name => e1.to = e2.to

\* Two prompts are linked to the same Tag node.
C4_Witness ==
    \E e1, e2 \in edges : e1.from # e2.from /\ e1.to = e2.to

\* C5: a GET /prompts/search?q=<term> is handled by search_prompts.
C5_SearchRouted ==
    \A p \in Procs :
        (/\ pc[p] # "idle"
         /\ request[p].method = "GET"
         /\ request[p].path = <<"prompts", "search">>
         /\ request[p].hasQ) => call[p].handler = "search_prompts"

\* C6: no search call fails because of the state of the full-text index.
C6_IndexBootstrap ==
    \A p \in Procs :
        Done(p, "search_prompts") => resp[p].error \notin {"AccessMode", "IndexNotOnline"}

Matching(q) == {n \in prompts : Score(n.text, q) > 0}

Min(a, b) == IF a < b THEN a ELSE b

EmptyOrMissingInput(req) ==
    \/ /\ req.method = "POST"
       /\ req.path = <<"prompts">>
       /\ (~req.body.hasText \/ req.body.text = <<>>)
    \/ /\ req.method = "GET"
       /\ req.path = <<"prompts", "search">>
       /\ (~req.hasQ \/ req.q = "")

\* C8: a create without text or with the empty text, and a search without q
\* or with the empty q, are answered with a client error, and no session is
\* acquired and no transaction is started for them.
C8_ValidatedFirst ==
    \A p \in Procs :
        (pc[p] # "idle" /\ EmptyOrMissingInput(request[p])) =>
            /\ ~sess[p]
            /\ attempts[p] = 0
            /\ pc[p] = "done"
            /\ resp[p].status = 422

\* C9 (as claimed): the transaction function is executed at most once per call.
C9_AtMostOnce == \A p \in Procs : attempts[p] <= 1

\* C9 (amended): the transaction function is run again only after a
\* retryable error and only while the retry budget lasts; any other error,
\* and a retryable one once the budget is used up, is propagated to the
\* caller unmodified.
C9_RetryOnlyTransient ==
    \A p \in Procs :
        /\ attempts[p] <= MaxRetry + 1
        /\ (pc[p] = "run" /\ attempts[p] > 1) => lastError[p] \in Retryable
        /\ (pc[p] = "run" /\ attempts[p] = 1) => lastError[p] = "none"
        /\ (pc[p] = "done" /\ lastError[p] # "none" /\ resp[p].status # 500) =>
              (lastError[p] \in Retryable /\ attempts[p] > 1)
        /\ (pc[p] = "done" /\ resp[p].status = 500) =>
              /\ resp[p].error = lastError[p]
              /\ lastError[p] \in Retryable => attempts[p] = MaxRetry + 1

\* A call was run again after a transient error and then failed for good.
C9_Witness ==
    \E p \in Procs :
        /\ pc[p] = "done"
        /\ attempts[p] > 1
        /\ resp[p].status = 500
        /\ resp[p].error = "DatabaseError"

StepOf(p) == <<pc[p], tx[p], attempts[p]>>' # <<pc[p], tx[p], attempts[p]>>

\* C10: no step of a get changes the Prompt nodes, the Tag nodes, the edges or
\* the index, and a get whose transaction did not fail, for an id no Prompt
\* node has, ends with the 404 response.
C10_NotFound ==
    [][\A p \in Procs :
          (call[p].handler = "get_prompt" /\ StepOf(p)) =>
              /\ store' = store
              /\ (pc'[p] = "done" /\ resp'[p].error = "none" /\ ~Committed(call[p].id)) =>
                    resp'[p].status = 404]_vars

\* A get of an unknown id was answered 404 on a store that holds prompts.
C10_Witness ==
    \E p \in Procs :
        /\ Done(p, "get_prompt")
        /\ call[p].id = "id-none"
        /\ resp[p].status = 404
        /\ prompts # {}

====
